---- MODULE Spec2Model ----
(***************************************************************************)
(* Model of src/components.py: the countdown dialog (WarningPopupWindow),  *)
(* the scrolling banner (WarningBanner) and the setting cards bound to a   *)
(* configuration item (SwitchSettingCard, SpinSettingCard, EditSettingCard,*)
(* ColorSettingCard).  The three widgets share no state; each has its own  *)
(* specification, and Spec runs one widget per behaviour.                  *)
(***************************************************************************)
EXTENDS Integers, Sequences, FiniteSets

\* ---------------------------------------------------------------- bounds
\* countdown(timeout) is called with timeout in -NegTimeouts..MaxTimeout,
\* or with the default itself.
NegTimeouts == 2
MaxTimeout == 3

\* WarningBanner is constructed with Fps in 0..MaxFps, TextSpeed in
\* -NegSpeed..MaxSpeed and a text whose pixel width is in 0..MaxTextW;
\* animate runs at most MaxTicks times; paintEvent runs with the widget
\* width 1, SmallView or StripeWidth + SmallView; a paint loop whose
\* iterations make no progress is followed for MaxStalls iterations.
MaxFps == 2
NegSpeed == 2
MaxSpeed == 3
MaxTextW == 3
MaxTicks == 42
SmallView == 2
MaxStalls == 2

\* At most NumCards setting cards are built on one configuration item whose
\* values are 0..MaxVal (a switch uses 0 and 1); one top-level operation
\* makes at most MaxCalls nested calls of a card's setValue.
NumCards == 2
MaxVal == 2
MaxCalls == 24

\* ------------------------------------------------------ program constants
\* components.py:49  timeout = 15
DefaultTimeout == 15
\* components.py:101  QPixmap(40, 32)
StripeWidth == 40
\* components.py:112  1000 // self.config.Fps
MsPerSecond == 1000

VARIABLES
    \* ---- WarningPopupWindow.countdown
    cpc,          \* position of countdown: "idle", "exec" (inside self.exec()),
                  \* "closing" (done() was called, exec is returning),
                  \* "returned", "raised"
    arg,          \* the timeout argument countdown was called with
    timeout,      \* the nonlocal variable timeout of update_text
    hist,         \* the values timeout has held, in order
    shown,        \* the numbers passed to setInformativeText, in order
    calls,        \* number of times update_text has run
    timerActive,  \* the QTimer of line 64 is started and not stopped
    dlgResult,    \* the dialog's result code: "none", "Ok", "Cancel"
    events,       \* what called done(): "confirm", "cancel" (user), "timeout"
    ret,          \* countdown's return value, -1 while there is none
    lateTicks     \* update_text runs after control has left countdown

cvars == <<cpc, arg, timeout, hist, shown, calls, timerActive, dlgResult,
           events, ret, lateTicks>>

VARIABLES
    \* ---- WarningBanner
    bpc,          \* "none" (not constructed), "running", "ZeroDivisionError"
    interval,     \* the interval the timer of line 112 was started with
    text_speed,   \* self.text_speed
    text_w,       \* horizontalAdvance(self.text), the pixel width of the text
    offset,       \* self.offset
    text_x,       \* self.text_x
    nticks,       \* number of animate calls so far
    wrapped,      \* line 123 has run: the text has scrolled past its width
    ppc,          \* position of paintEvent: "idle", "top", "bottom", "text"
    vw,           \* self.width() during the current paintEvent
    px,           \* the local x of the paint loops
    topCov,       \* the x in [0, vw) the top stripe tiles were drawn over
    botCov,       \* the same for the bottom stripe tiles
    textCov,      \* the x in [0, vw) the text copies were drawn over
    painted,      \* a paintEvent has completed since the last animate
    stalls        \* iterations of the text loop that left x unchanged

bvars == <<bpc, interval, text_speed, text_w, offset, text_x, nticks, wrapped,
           ppc, vw, px, topCov, botCov, textCov, painted, stalls>>

VARIABLES
    \* ---- the setting cards and the configuration item they are built on
    spc,          \* "none" (no item yet), "ready"
    kind,         \* the class of the cards: "switch", "spin", "edit", "color"
    itemRange,    \* the range of the item's validator, <<>> without one
    store,        \* the item's value, qconfig.get(configItem)
    ncards,       \* the cards 1..ncards are constructed
    bound,        \* bound[c]: card c was given the configItem
    wrange,       \* wrange[c]: the range of card c's spin box
    disp,         \* disp[c]: the value card c's widget displays
    subs,         \* the cards connected to configItem.valueChanged, in order
    lastOp,       \* the last top-level operation, <<name, card, value>>
    log,          \* what the last operation did, in order: <<"set", c, v>>
                  \* (qconfig.set called by card c, 0: by the application),
                  \* <<"commit", 0, v>> (the item's value became v),
                  \* <<"notify", c, v>> (valueChanged delivered to card c),
                  \* <<"emit", c, v>> (card c's outward signal)
    overflow      \* the last operation needed more than MaxCalls calls

svars == <<spc, kind, itemRange, store, ncards, bound, wrange, disp, subs,
           lastOp, log, overflow>>

vars == <<cvars, bvars, svars>>

\* What each widget's operations leave alone: the other widgets.
notCountdown == <<bvars, svars>>
notBanner == <<cvars, svars>>
notCards == <<cvars, bvars>>

\* ------------------------------------------------------------ countdown

TimeoutArgs == ((0 - NegTimeouts)..MaxTimeout) \cup {DefaultTimeout}

\* components.py:48-49
EffectiveTimeout_Missing(t) == t
EffectiveTimeout_NegOnly(t) == IF t < 0 THEN DefaultTimeout ELSE t
EffectiveTimeout(t) == IF t <= 0 THEN DefaultTimeout ELSE t

\* components.py:54-59, the test of update_text
TickBranch_OffByOne(t) == IF t > 1 THEN "display" ELSE "confirm"
TickBranch(t) == IF t > 0 THEN "display" ELSE "confirm"

\* components.py:73-75
ResultCode_AlwaysOne(r) == 1
ResultCode(r) == IF r = "Cancel" THEN 0 ELSE 1

InitCountdown ==
    /\ cpc = "idle"
    /\ arg = 0
    /\ timeout = 0
    /\ hist = <<>>
    /\ shown = <<>>
    /\ calls = 0
    /\ timerActive = FALSE
    /\ dlgResult = "none"
    /\ events = <<>>
    /\ ret = -1
    /\ lateTicks = 0

\* countdown(t) up to the call of self.exec(): the default, the synchronous
\* update_text() of line 61, the timer of lines 64-67.  Were the synchronous
\* call to take the else branch, timer.stop() would read the local timer
\* before its assignment and countdown would raise.
Start(t) ==
    /\ UNCHANGED notCountdown
    /\ cpc = "idle"
    /\ arg' = t
    /\ calls' = 1
    /\ ret' = ret
    /\ lateTicks' = lateTicks
    /\ LET eff == EffectiveTimeout(t) IN
       IF TickBranch(eff) = "display"
       THEN /\ shown' = <<eff>>
            /\ timeout' = eff - 1
            /\ hist' = <<eff, eff - 1>>
            /\ timerActive' = TRUE
            /\ cpc' = "exec"
            /\ UNCHANGED <<dlgResult, events>>
       ELSE /\ timeout' = eff
            /\ hist' = <<eff>>
            /\ dlgResult' = "Ok"
            /\ events' = Append(events, "timeout")
            /\ cpc' = "raised"
            /\ UNCHANGED <<shown, timerActive>>

\* The timer's timeout signal runs update_text.  A timer that is still active
\* after control has left countdown is served by the caller's event loop.
Tick ==
    /\ UNCHANGED notCountdown
    /\ timerActive
    /\ cpc \in {"exec", "returned", "raised"}
    /\ calls' = calls + 1
    /\ lateTicks' = IF cpc = "exec" THEN lateTicks ELSE lateTicks + 1
    /\ UNCHANGED <<arg, ret>>
    /\ IF TickBranch(timeout) = "display"
       THEN /\ shown' = Append(shown, timeout)
            /\ timeout' = timeout - 1
            /\ hist' = Append(hist, timeout - 1)
            /\ UNCHANGED <<timerActive, dlgResult, events, cpc>>
       ELSE /\ dlgResult' = "Ok"
            /\ events' = Append(events, "timeout")
            /\ timerActive' = FALSE
            /\ cpc' = IF cpc = "exec" THEN "closing" ELSE cpc
            /\ UNCHANGED <<shown, timeout, hist>>

\* The user presses the Ok button ("立即执行") of the open dialog.
UserConfirm ==
    /\ UNCHANGED notCountdown
    /\ cpc = "exec"
    /\ dlgResult' = "Ok"
    /\ events' = Append(events, "confirm")
    /\ cpc' = "closing"
    /\ UNCHANGED <<arg, timeout, hist, shown, calls, timerActive, ret, lateTicks>>

\* The user presses the Cancel button ("取消") of the open dialog.
UserCancel ==
    /\ UNCHANGED notCountdown
    /\ cpc = "exec"
    /\ dlgResult' = "Cancel"
    /\ events' = Append(events, "cancel")
    /\ cpc' = "closing"
    /\ UNCHANGED <<arg, timeout, hist, shown, calls, timerActive, ret, lateTicks>>

\* self.exec() raises: lines 71-75 are skipped, nothing catches the error.
ExecFail ==
    /\ UNCHANGED notCountdown
    /\ cpc = "exec"
    /\ cpc' = "raised"
    /\ UNCHANGED <<arg, timeout, hist, shown, calls, timerActive, dlgResult,
                   events, ret, lateTicks>>

\* self.exec() returns the result; lines 71-75.
ExecReturn_NoStop ==
    /\ UNCHANGED notCountdown
    /\ cpc = "closing"
    /\ ret' = ResultCode(dlgResult)
    /\ cpc' = "returned"
    /\ UNCHANGED <<arg, timeout, hist, shown, calls, timerActive, dlgResult,
                   events, lateTicks>>
ExecReturn ==
    /\ UNCHANGED notCountdown
    /\ cpc = "closing"
    /\ timerActive' = FALSE
    /\ ret' = ResultCode(dlgResult)
    /\ cpc' = "returned"
    /\ UNCHANGED <<arg, timeout, hist, shown, calls, dlgResult, events, lateTicks>>

NextCountdown ==
    \/ \E t \in TimeoutArgs : Start(t)
    \/ Tick
    \/ UserConfirm
    \/ UserCancel
    \/ ExecFail
    \/ ExecReturn

\* --------------------------------------------------------------- banner

FpsArgs == 0..MaxFps
SpeedArgs == (0 - NegSpeed)..MaxSpeed
TextWidths == 0..MaxTextW
ViewWidths == {1, SmallView, StripeWidth + SmallView}

InitBanner ==
    /\ bpc = "none"
    /\ interval = 0
    /\ text_speed = 0
    /\ text_w = 0
    /\ offset = 0
    /\ text_x = 0
    /\ nticks = 0
    /\ wrapped = FALSE
    /\ ppc = "idle"
    /\ vw = 0
    /\ px = 0
    /\ topCov = {}
    /\ botCov = {}
    /\ textCov = {}
    /\ painted = FALSE
    /\ stalls = 0

\* WarningBanner.__init__ with config.Fps = f, config.TextSpeed = s and a
\* config.Text of pixel width w.  Line 112 divides by Fps.
Construct(f, s, w) ==
    /\ UNCHANGED notBanner
    /\ bpc = "none"
    /\ text_speed' = s
    /\ text_w' = w
    /\ text_x' = 0
    /\ offset' = 0
    /\ IF f = 0
       THEN /\ bpc' = "ZeroDivisionError"
            /\ interval' = interval
       ELSE /\ bpc' = "running"
            /\ interval' = MsPerSecond \div f
    /\ UNCHANGED <<nticks, wrapped, ppc, vw, px, topCov, botCov, textCov,
                   painted, stalls>>

\* components.py:116
NextOffset_NoWrap(o) == o + 1
NextOffset(o) == (o + 1) % StripeWidth

\* components.py:119-123: the text position after one tick
TextWraps(x, s, w) == x - s < 0 - w
NextTextX(x, s, w) == IF TextWraps(x, s, w) THEN (x - s) + w ELSE x - s

\* WarningBanner.animate; self.update() makes the last painting stale.
Animate_SkipsWhenStill ==
    /\ UNCHANGED notBanner
    /\ bpc = "running"
    /\ ppc = "idle"
    /\ nticks < MaxTicks
    /\ nticks' = nticks + 1
    /\ offset' = IF text_speed = 0 THEN offset ELSE NextOffset(offset)
    /\ text_x' = NextTextX(text_x, text_speed, text_w)
    /\ wrapped' = (wrapped \/ TextWraps(text_x, text_speed, text_w))
    /\ painted' = FALSE
    /\ vw' = 0
    /\ px' = 0
    /\ topCov' = {}
    /\ botCov' = {}
    /\ textCov' = {}
    /\ stalls' = 0
    /\ UNCHANGED <<bpc, interval, text_speed, text_w, ppc>>
Animate ==
    /\ UNCHANGED notBanner
    /\ bpc = "running"
    /\ ppc = "idle"
    /\ nticks < MaxTicks
    /\ nticks' = nticks + 1
    /\ offset' = NextOffset(offset)
    /\ text_x' = NextTextX(text_x, text_speed, text_w)
    /\ wrapped' = (wrapped \/ TextWraps(text_x, text_speed, text_w))
    /\ painted' = FALSE
    /\ vw' = 0
    /\ px' = 0
    /\ topCov' = {}
    /\ botCov' = {}
    /\ textCov' = {}
    /\ stalls' = 0
    /\ UNCHANGED <<bpc, interval, text_speed, text_w, ppc>>

\* The x in [0, width) that a tile of width w drawn at x covers.
Cover(x, w, width) == {p \in 0..(width - 1) : x <= p /\ p < x + w}

\* paintEvent, lines 127-133, with self.width() = width.
PaintBegin(width) ==
    /\ UNCHANGED notBanner
    /\ bpc = "running"
    /\ ppc = "idle"
    /\ vw' = width
    /\ px' = 0 - offset
    /\ ppc' = "top"
    /\ topCov' = {}
    /\ botCov' = {}
    /\ textCov' = {}
    /\ painted' = FALSE
    /\ stalls' = 0
    /\ UNCHANGED <<bpc, interval, text_speed, text_w, offset, text_x, nticks,
                   wrapped>>

\* One test of the loop of lines 134-136, then lines 139-144 on exit.
PaintTop ==
    /\ UNCHANGED notBanner
    /\ ppc = "top"
    /\ IF px < vw
       THEN /\ topCov' = topCov \cup Cover(px, StripeWidth, vw)
            /\ px' = px + StripeWidth
            /\ ppc' = ppc
       ELSE /\ px' = 0 - offset
            /\ ppc' = "bottom"
            /\ topCov' = topCov
    /\ UNCHANGED <<bpc, interval, text_speed, text_w, offset, text_x, nticks,
                   wrapped, vw, botCov, textCov, painted, stalls>>

\* One test of the loop of lines 145-147, then lines 150-156 on exit.
PaintBottom ==
    /\ UNCHANGED notBanner
    /\ ppc = "bottom"
    /\ IF px < vw
       THEN /\ botCov' = botCov \cup Cover(px, StripeWidth, vw)
            /\ px' = px + StripeWidth
            /\ ppc' = ppc
       ELSE /\ px' = text_x
            /\ ppc' = "text"
            /\ botCov' = botCov
    /\ UNCHANGED <<bpc, interval, text_speed, text_w, offset, text_x, nticks,
                   wrapped, vw, topCov, textCov, painted, stalls>>

\* One test of the loop of lines 157-159; paintEvent returns on exit.  An
\* iteration with text width 0 leaves x as it was.
PaintText ==
    /\ UNCHANGED notBanner
    /\ ppc = "text"
    /\ IF px < vw
       THEN /\ text_w = 0 => stalls < MaxStalls
            /\ textCov' = textCov \cup Cover(px, text_w, vw)
            /\ px' = px + text_w
            /\ stalls' = IF text_w = 0 THEN stalls + 1 ELSE stalls
            /\ UNCHANGED <<ppc, painted>>
       ELSE /\ ppc' = "idle"
            /\ painted' = TRUE
            /\ UNCHANGED <<textCov, px, stalls>>
    /\ UNCHANGED <<bpc, interval, text_speed, text_w, offset, text_x, nticks,
                   wrapped, vw, topCov, botCov>>

NextBanner ==
    \/ \E f \in FpsArgs, s \in SpeedArgs, w \in TextWidths : Construct(f, s, w)
    \/ Animate
    \/ \E width \in ViewWidths : PaintBegin(width)
    \/ PaintTop
    \/ PaintBottom
    \/ PaintText

\* ---------------------------------------------------------------- cards

Cards == 1..NumCards
Values == 0..MaxVal
Kinds == {"switch", "spin", "edit", "color"}
NoRange == <<>>
\* The ranges an item's validator is given, and the ranges a spin box is
\* given: the whole of the values (it accepts whatever the item may hold) or
\* less.
ItemRanges == {NoRange, <<0, MaxVal - 1>>, <<1, MaxVal>>}
SpinRanges == {<<0, MaxVal>>, <<0, MaxVal - 1>>}

\* The values an item or a widget of this kind takes.
KindValues(k) == IF k = "switch" THEN 0..1 ELSE Values

Clamp(r, v) == IF r = NoRange THEN v
               ELSE IF v < r[1] THEN r[1]
               ELSE IF v > r[2] THEN r[2]
               ELSE v

InitCards ==
    /\ spc = "none"
    /\ kind = "switch"
    /\ itemRange = NoRange
    /\ store = 0
    /\ ncards = 0
    /\ bound = [c \in Cards |-> FALSE]
    /\ wrange = [c \in Cards |-> <<0, MaxVal>>]
    /\ disp = [c \in Cards |-> 0]
    /\ subs = <<>>
    /\ lastOp = <<"none", 0, 0>>
    /\ log = <<>>
    /\ overflow = FALSE

\* The state the nested calls of one operation work on.
Begin == [store |-> store, disp |-> disp, log |-> <<>>, fuel |-> MaxCalls,
          overflow |-> FALSE]

Logged(st, e) == [st EXCEPT !.log = Append(@, e)]

RECURSIVE QSet(_, _, _)
RECURSIVE Deliver(_, _, _)
RECURSIVE Slot(_, _, _)
RECURSIVE CardSetValue(_, _, _)
RECURSIVE WidgetSet(_, _, _)
RECURSIVE OnWidgetChanged(_, _, _)

\* qconfig.set(configItem, v) called by card c (0: by the application):
\* nothing when the item holds v; otherwise the item's value becomes v as
\* corrected by the validator, and valueChanged is emitted when that differs
\* from the old value.
QSet(st, c, v) ==
    LET st1 == Logged(st, <<"set", c, v>>) IN
    IF st1.store = v THEN st1
    ELSE LET nv == Clamp(itemRange, v)
             st2 == Logged([st1 EXCEPT !.store = nv], <<"commit", 0, nv>>)
         IN  IF st.store # nv THEN Deliver(st2, nv, 1) ELSE st2

\* configItem.valueChanged(v) reaches the connected cards in connection order.
Deliver(st, v, i) ==
    IF i > Len(subs) THEN st
    ELSE Deliver(Slot(Logged(st, <<"notify", subs[i], v>>), subs[i], v), v, i + 1)

\* The slot a card connects to configItem.valueChanged: setValue (setText).
\* ColorSettingCard.setValue 507-509 recolours the picker, which signals
\* nothing, and then calls qconfig.set.
Slot(st, c, v) ==
    IF kind # "color" THEN CardSetValue(st, c, v)
    ELSE IF st.fuel = 0 THEN [st EXCEPT !.overflow = TRUE]
    ELSE QSet([st EXCEPT !.fuel = @ - 1, !.disp[c] = v], c, v)

\* SwitchSettingCard.setValue 314-319, SpinSettingCard.setValue 393-397,
\* EditSettingCard.setText 454-458.
CardSetValue_AlwaysSets(st, c, v) ==
    IF st.fuel = 0 THEN [st EXCEPT !.overflow = TRUE]
    ELSE WidgetSet(QSet([st EXCEPT !.fuel = @ - 1], c, v), c, v)
CardSetValue(st, c, v) ==
    IF st.fuel = 0 THEN [st EXCEPT !.overflow = TRUE]
    ELSE LET st0 == [st EXCEPT !.fuel = @ - 1]
             st1 == IF bound[c] THEN QSet(st0, c, v) ELSE st0
         IN  WidgetSet(st1, c, v)

\* switchButton.setChecked / spinBox.setValue / lineEdit.setText: the widget
\* shows v (a spin box: v brought into its range) and, when that changes what
\* it showed, emits its change signal, which runs the card's slot.
WidgetSet_AlwaysEmits(st, c, v) ==
    LET w == IF kind = "spin" THEN Clamp(wrange[c], v) ELSE v IN
    OnWidgetChanged([st EXCEPT !.disp[c] = w], c, w)
WidgetSet(st, c, v) ==
    LET w == IF kind = "spin" THEN Clamp(wrange[c], v) ELSE v IN
    IF st.disp[c] = w THEN st
    ELSE OnWidgetChanged([st EXCEPT !.disp[c] = w], c, w)

\* __onCheckedChanged 309-312, __onValueChanged 388-391, __onTextChanged
\* 449-452, __onColorChanged 503-505.
OnWidgetChanged(st, c, v) ==
    IF kind = "color" THEN Logged(QSet(st, c, v), <<"emit", c, v>>)
    ELSE Logged(CardSetValue(st, c, v), <<"emit", c, v>>)

\* The outcome of one operation becomes the state.
Finish(st, op) ==
    /\ store' = st.store
    /\ disp' = st.disp
    /\ log' = st.log
    /\ overflow' = st.overflow
    /\ lastOp' = op
    /\ UNCHANGED <<spc, kind, itemRange, ncards, bound, wrange, subs>>

\* The application creates the configuration item: its kind of value, its
\* validator's range (numeric items only) and its value, which the validator
\* has corrected.
NewItem(k, r, v) ==
    /\ UNCHANGED notCards
    /\ spc = "none"
    /\ v \in KindValues(k)
    /\ r # NoRange => k = "spin"
    /\ spc' = "ready"
    /\ kind' = k
    /\ itemRange' = r
    /\ store' = Clamp(r, v)
    /\ UNCHANGED <<ncards, bound, wrange, disp, subs, lastOp, log, overflow>>

\* A card's __init__ (299-307, 372-386, 439-447, 495-501): b tells whether
\* a configItem is given, r is the range argument of a SpinSettingCard.  The
\* card sets itself to the item's value and connects to valueChanged; its
\* widget's own signal is connected only afterwards, so the widget changes
\* silently here.  A colour card always has an item.
NewCard_SignalFirst(b, r) ==
    /\ UNCHANGED notCards
    /\ spc = "ready"
    /\ ncards < NumCards
    /\ kind = "color" => b
    /\ kind # "spin" => r = <<0, MaxVal>>
    /\ LET c == ncards + 1
           own == IF kind = "spin" THEN Clamp(r, 0) ELSE 0
           w == IF kind = "spin" THEN Clamp(r, store) ELSE store
           st0 == [Begin EXCEPT !.disp[c] = own]
           st1 == IF b /\ kind # "color"
                  THEN OnWidgetChanged([QSet(st0, c, store) EXCEPT !.disp[c] = w], c, w)
                  ELSE [st0 EXCEPT !.disp[c] = IF b THEN w ELSE own]
       IN  /\ ncards' = c
           /\ bound' = [bound EXCEPT ![c] = b]
           /\ wrange' = [wrange EXCEPT ![c] = r]
           /\ disp' = st1.disp
           /\ subs' = IF b THEN Append(subs, c) ELSE subs
           /\ store' = st1.store
           /\ log' = st1.log
           /\ overflow' = st1.overflow
           /\ lastOp' = <<"init", c, store>>
    /\ UNCHANGED <<spc, kind, itemRange>>
NewCard(b, r) ==
    /\ UNCHANGED notCards
    /\ spc = "ready"
    /\ ncards < NumCards
    /\ kind = "color" => b
    /\ kind # "spin" => r = <<0, MaxVal>>
    /\ LET c == ncards + 1
           own == IF kind = "spin" THEN Clamp(r, 0) ELSE 0
           st1 == IF b /\ kind # "color" THEN QSet(Begin, c, store) ELSE Begin
           w == IF kind = "spin" THEN Clamp(r, store) ELSE store
       IN  /\ ncards' = c
           /\ bound' = [bound EXCEPT ![c] = b]
           /\ wrange' = [wrange EXCEPT ![c] = r]
           /\ disp' = [st1.disp EXCEPT ![c] = IF b THEN w ELSE own]
           /\ subs' = IF b THEN Append(subs, c) ELSE subs
           /\ store' = st1.store
           /\ log' = st1.log
           /\ overflow' = st1.overflow
           /\ lastOp' = <<"init", c, store>>
    /\ UNCHANGED <<spc, kind, itemRange>>

\* The values the user can bring card c's widget to.
WidgetValues(c) ==
    IF kind = "spin" THEN {v \in Values : Clamp(wrange[c], v) = v}
    ELSE KindValues(kind)

\* The user changes card c's widget to v: the widget shows v and emits its
\* change signal.
UserChange(c, v) ==
    /\ UNCHANGED notCards
    /\ c \in 1..ncards
    /\ v \in WidgetValues(c)
    /\ v # disp[c]
    /\ Finish(OnWidgetChanged([Begin EXCEPT !.disp[c] = v], c, v), <<"user", c, v>>)

\* The application calls card c's setValue(v) (setChecked, setText).
CallSetValue(c, v) ==
    /\ UNCHANGED notCards
    /\ c \in 1..ncards
    /\ v \in KindValues(kind)
    /\ Finish(Slot(Begin, c, v), <<"setValue", c, v>>)

\* The application calls qconfig.set(configItem, v).
ExternalSet(v) ==
    /\ UNCHANGED notCards
    /\ spc = "ready"
    /\ v \in KindValues(kind)
    /\ Finish(QSet(Begin, 0, v), <<"set", 0, v>>)

NextCards ==
    \/ \E k \in Kinds, r \in ItemRanges, v \in Values : NewItem(k, r, v)
    \/ \E b \in BOOLEAN, r \in SpinRanges : NewCard(b, r)
    \/ \E c \in Cards, v \in Values : UserChange(c, v)
    \/ \E c \in Cards, v \in Values : CallSetValue(c, v)
    \/ \E v \in Values : ExternalSet(v)

\* ------------------------------------------------------- specifications

Init == InitCountdown /\ InitBanner /\ InitCards

SpecCountdown == Init /\ [][NextCountdown]_vars

\* While the dialog's event loop runs, an active timer's tick is eventually
\* delivered; once done() was called, self.exec() returns.
FairCountdown == SpecCountdown /\ WF_vars(Tick) /\ WF_vars(ExecReturn)

SpecBanner == Init /\ [][NextBanner]_vars

SpecCards == Init /\ [][NextCards]_vars

\* One widget per behaviour: a widget's operations run while the other two
\* widgets have not been started.
Next ==
    \/ (bpc = "none" /\ spc = "none" /\ NextCountdown)
    \/ (cpc = "idle" /\ spc = "none" /\ NextBanner)
    \/ (cpc = "idle" /\ bpc = "none" /\ NextCards)

Spec == Init /\ [][Next]_vars

\* ---------------------------------------------------------------- claims

\* <<n, n-1, ..., n-k+1>>
Down(n, k) == [i \in 1..k |-> n - i + 1]

UserActed == \E i \in 1..Len(events) : events[i] \in {"confirm", "cancel"}

\* A run of countdown that counts from n: timeout has held n, n-1, ... in
\* this order, one value per run of update_text; every value but the last
\* was displayed; the countdown itself confirms only on the run after
\* timeout reached 0, the (n+1)-th (the n-th scheduled tick).
CountsFrom(n) ==
    /\ Len(hist) >= 1
    /\ Len(hist) <= n + 1
    /\ hist = Down(n, Len(hist))
    /\ timeout = hist[Len(hist)]
    /\ shown = Down(n, Len(hist) - 1)
    /\ (\E i \in 1..Len(events) : events[i] = "timeout")
         => (timeout = 0 /\ hist = Down(n, n + 1) /\ calls = n + 1)
    /\ (\A i \in 1..Len(events) : events[i] # "timeout")
         => (calls = Len(hist) - 1 /\ calls >= 1)

\* C1: countdown(n), n >= 1, without user action: timeout takes the values
\* n, n-1, ..., 1, 0 in this order, one per run of update_text, the first
\* run being the synchronous one; then the countdown itself triggers the
\* confirm action, and countdown returns 1.
C1_Counting ==
    (cpc # "idle" /\ arg >= 1 /\ ~UserActed) =>
        /\ CountsFrom(arg)
        /\ cpc \in {"closing", "returned"} => events = <<"timeout">>
        /\ cpc = "returned" => ret = 1

\* C1, with the ticks delivered: unless the user acts or self.exec() fails,
\* countdown does return, confirmed by its own timeout.
C1_CountdownSequence ==
    /\ []C1_Counting
    /\ (cpc = "exec") ~>
           (UserActed \/ cpc = "raised" \/
            (cpc = "returned" /\ ret = 1 /\ events = <<"timeout">>
                /\ hist = Down(EffectiveTimeout(arg), EffectiveTimeout(arg) + 1)))

C1_Witness ==
    /\ cpc = "returned"
    /\ arg = MaxTimeout
    /\ events = <<"timeout">>
    /\ hist = Down(MaxTimeout, MaxTimeout + 1)
    /\ ret = 1

\* C2: when the user cancels while the countdown is counting, countdown
\* returns 0 with the timer stopped, and no update_text runs after the
\* return: message and timeout stay, the confirm action is never triggered.
C2_CancelStopsTimer ==
    (Len(events) >= 1 /\ events[1] = "cancel") =>
        /\ events = <<"cancel">>
        /\ dlgResult = "Cancel"
        /\ lateTicks = 0
        /\ calls = Len(shown)
        /\ cpc \in {"closing", "returned"}
        /\ cpc = "returned" => (ret = 0 /\ ~timerActive)

C2_Witness ==
    /\ cpc = "returned"
    /\ events = <<"cancel">>
    /\ calls = 2
    /\ shown = <<MaxTimeout, MaxTimeout - 1>>
    /\ ret = 0
    /\ ~timerActive

\* C3: a run of countdown ends in one terminal state: done() is called at
\* most once, by whichever of user confirm, user cancel and the timeout tick
\* comes first; the return value is 0 for cancel and 1 otherwise; the timer
\* is stopped on return; nothing changes the result afterwards.
C3_OneResult ==
    /\ Len(events) <= 1
    /\ (events = <<>>) <=> (dlgResult = "none")
    /\ events # <<>> =>
           dlgResult = (IF events[1] = "cancel" THEN "Cancel" ELSE "Ok")
    /\ cpc \in {"closing", "returned"} => Len(events) = 1
    /\ cpc \in {"idle", "exec"} => events = <<>>
    /\ (cpc = "returned") <=> (ret # -1)
    /\ cpc = "returned" =>
           /\ ret = (IF events[1] = "cancel" THEN 0 ELSE 1)
           /\ ~timerActive
           /\ lateTicks = 0

\* C3, with the ticks delivered: a run whose self.exec() does not fail
\* returns.
C3_SingleTerminal ==
    /\ []C3_OneResult
    /\ (cpc = "exec") ~> (cpc \in {"returned", "raised"})

C3_Witness ==
    /\ cpc = "returned"
    /\ events = <<"confirm">>
    /\ timeout > 0
    /\ ret = 1
    /\ ~timerActive

\* C4: the timer is stopped on every path by which control leaves
\* countdown, the one by which self.exec() raises included.
C4_TimerStoppedOnEveryExit ==
    cpc \in {"returned", "raised"} => ~timerActive

\* C5: countdown(t), t <= 0, runs as countdown(15) does: the first message
\* shows 15, timeout takes the values 15, 14, ..., the countdown confirms on
\* the 16th run of update_text, the result follows what closed the dialog, and countdown
\* does not raise before it shows the first message.
C5_NonPositiveIsDefault ==
    (cpc # "idle" /\ arg <= 0) =>
        /\ CountsFrom(DefaultTimeout)
        /\ shown # <<>>
        /\ shown[1] = DefaultTimeout
        /\ cpc = "returned" => ret = (IF events[1] = "cancel" THEN 0 ELSE 1)

C5_Witness ==
    /\ cpc = "returned"
    /\ arg = 0
    /\ events = <<"timeout">>
    /\ calls = DefaultTimeout + 1
    /\ shown = Down(DefaultTimeout, DefaultTimeout)
    /\ ret = 1

\* C6: after n calls of animate the stripe offset is n mod 40, and it is
\* always in 0..39.
C6_StripeOffset ==
    /\ offset = nticks % StripeWidth
    /\ 0 <= offset
    /\ offset < StripeWidth

C6_Witness ==
    /\ nticks = StripeWidth + 1
    /\ offset = 1

\* C7: for a text of width T > 0 and any integer speed, once the text has
\* scrolled past T (line 123 has run), text_x is in (-T, 0] after every tick.
C7_TextBand ==
    (bpc = "running" /\ text_w > 0 /\ wrapped) =>
        (0 - text_w < text_x /\ text_x <= 0)

\* C8: a completed paintEvent has drawn over every x of [0, width): with
\* stripe tiles in the top band and in the bottom band, and with copies of
\* the text, whose first copy starts at text_x <= 0.  Stated for a text of
\* width > 0; the empty text is the matter of C9.
C8_TilingCovers ==
    (painted /\ text_w > 0) =>
        /\ topCov = 0..(vw - 1)
        /\ botCov = 0..(vw - 1)
        /\ textCov = 0..(vw - 1)
        /\ text_x <= 0

\* C9: constructing the banner raises no division error, and every
\* iteration of the text loop of paintEvent advances x, so that the loop
\* ends.
C9_NoDegenerateFault ==
    /\ bpc # "ZeroDivisionError"
    /\ stalls = 0

\* C10: when the user changes a bound card's widget, qconfig.set is called
\* exactly once in that interaction, before the card's outward signal, and
\* every outward signal of the card carries the value the item then holds.
C10_SetOnceThenEmit ==
    (lastOp[1] = "user" /\ bound[lastOp[2]]) =>
        LET c == lastOp[2]
            sets == {i \in 1..Len(log) : log[i][1] = "set"}
            emits == {i \in 1..Len(log) : log[i][1] = "emit" /\ log[i][2] = c}
        IN  /\ Cardinality(sets) = 1
            /\ emits # {}
            /\ \A i \in sets, j \in emits : i < j
            /\ \A j \in emits : log[j][3] = store

\* C17 as claimed: the tick that brings timeout to 0 is the tick that
\* confirms, so the dialog is never open with timeout = 0.
C17_NoCountingAtZero ==
    cpc = "exec" => timeout > 0

\* C17 as amended: while the dialog is open, a run of update_text that finds
\* timeout > 0 decreases it by exactly 1 and confirms nothing; the run that
\* finds timeout = 0 (the one after the run that brought it to 0) triggers
\* the confirm action, stops the timer and closes the dialog.
C17_TickStep ==
    /\ [](cpc = "exec" => (timeout >= 0 /\ timerActive /\ events = <<>>))
    /\ [][(cpc = "exec" /\ calls' = calls + 1) =>
            IF timeout > 0
            THEN /\ timeout' = timeout - 1
                 /\ shown' = Append(shown, timeout)
                 /\ cpc' = "exec"
                 /\ events' = events
            ELSE /\ timeout' = 0
                 /\ shown' = shown
                 /\ events' = <<"timeout">>
                 /\ dlgResult' = "Ok"
                 /\ timerActive' = FALSE
                 /\ cpc' = "closing"]_vars

C17_Witness ==
    /\ cpc = "closing"
    /\ events = <<"timeout">>
    /\ timeout = 0
    /\ arg = MaxTimeout
    /\ calls = MaxTimeout + 1

\* C18: on an animate tick on which text_x falls below -T (T > 0, speed
\* >= 1), text_x ends the tick in [-T, 0).
C18_RebaseIntoBand ==
    [][(nticks' = nticks + 1 /\ text_w > 0 /\ text_speed >= 1
            /\ TextWraps(text_x, text_speed, text_w))
        => (0 - text_w <= text_x' /\ text_x' < 0)]_vars

\* C19: with speed 0 every animate tick leaves text_x at its initial 0,
\* whatever the text width, and still advances the stripe offset by 1
\* modulo 40.
C19_StillTextMovingStripe ==
    /\ [](text_speed = 0 => (text_x = 0 /\ ~wrapped))
    /\ [][(text_speed = 0 /\ nticks' = nticks + 1) =>
            /\ text_x' = text_x
            /\ offset' = (offset + 1) % StripeWidth]_vars

C19_Witness ==
    /\ bpc = "running"
    /\ text_speed = 0
    /\ text_w = 0
    /\ text_x = 0
    /\ nticks = StripeWidth + 2
    /\ offset = 2

\* C20: the synchronous first run of update_text displays and decrements,
\* for every timeout argument: countdown shows the effective timeout before
\* anything else and has started the timer, and the countdown's own confirm
\* comes from a later run, never from the first.
C20_FirstRunDisplays ==
    cpc # "idle" =>
        /\ calls >= 1
        /\ shown # <<>>
        /\ shown[1] = (IF arg <= 0 THEN DefaultTimeout ELSE arg)
        /\ Len(hist) >= 2
        /\ (\E i \in 1..Len(events) : events[i] = "timeout") => calls >= 2
        /\ cpc = "exec" => timerActive

C20_Witness ==
    /\ cpc = "exec"
    /\ arg = 0 - NegTimeouts
    /\ calls = 1
    /\ shown = <<DefaultTimeout>>
    /\ timeout = DefaultTimeout - 1
    /\ timerActive

\* What a card's widget shows when it is set to v.
Shows(c, v) == IF kind = "spin" THEN Clamp(wrange[c], v) ELSE v

\* The entries of the last operation's log of the given kinds.
Entries(kinds) == {i \in 1..Len(log) : log[i][1] \in kinds}

\* C11: a bound spin card whose spin box accepts the value is set (by the
\* user or by setValue) to a value outside the item's range: afterwards the
\* item holds the nearest bound of its range and the spin box shows it too.
C11_ClampRoundTrip ==
    (/\ lastOp[1] \in {"user", "setValue"}
     /\ kind = "spin"
     /\ itemRange # NoRange
     /\ bound[lastOp[2]]
     /\ Clamp(wrange[lastOp[2]], lastOp[3]) = lastOp[3]
     /\ Clamp(itemRange, lastOp[3]) # lastOp[3])
    => /\ store = Clamp(itemRange, lastOp[3])
       /\ disp[lastOp[2]] = store

\* C12: a card built without a configItem never touches the item: building
\* it, a user change of it or a setValue on it calls no qconfig.set, delivers
\* no valueChanged, leaves the item's value, the subscriptions and the other
\* cards as they were; its widget shows the value, and a user change emits
\* the card's outward signal with it.
C12_UnboundIsLocal ==
    /\ [](\A c \in 1..ncards : ~bound[c] =>
            \A i \in 1..Len(subs) : subs[i] # c)
    /\ []((lastOp[1] \in {"init", "user", "setValue"} /\ ~bound[lastOp[2]]) =>
            /\ Entries({"set", "commit", "notify"}) = {}
            /\ lastOp[1] # "init" => disp[lastOp[2]] = Shows(lastOp[2], lastOp[3])
            /\ lastOp[1] = "user" =>
                   \E i \in 1..Len(log) : log[i] = <<"emit", lastOp[2], lastOp[3]>>)
    /\ [][(lastOp'[1] \in {"init", "user", "setValue"} /\ ~bound'[lastOp'[2]]) =>
            /\ store' = store
            /\ subs' = subs
            /\ \A d \in Cards : d # lastOp'[2] => disp'[d] = disp[d]]_vars

C12_Witness ==
    /\ ncards = 2
    /\ bound[1]
    /\ ~bound[2]
    /\ lastOp = <<"user", 2, MaxVal>>
    /\ disp[2] = MaxVal
    /\ store = 0
    /\ disp[1] = 0

\* C13: the constructor of a bound card leaves the item's value and the
\* other cards as they were, notifies no subscriber and emits no outward
\* signal; afterwards the card's widget shows the item's value (a spin box:
\* brought into its own range) and the card is the last subscriber.
C13_ConstructionIsQuiet ==
    /\ []((lastOp[1] = "init" /\ bound[lastOp[2]]) =>
            /\ store = lastOp[3]
            /\ disp[lastOp[2]] = Shows(lastOp[2], store)
            /\ (Shows(lastOp[2], store) # store) =>
                   (kind = "spin" /\ Clamp(wrange[lastOp[2]], store) # store)
            /\ subs # <<>>
            /\ subs[Len(subs)] = lastOp[2]
            /\ Cardinality({i \in 1..Len(subs) : subs[i] = lastOp[2]}) = 1
            /\ Entries({"commit", "notify", "emit"}) = {})
    /\ [][(ncards' = ncards + 1) =>
            /\ store' = store
            /\ \A d \in 1..ncards : disp'[d] = disp[d]]_vars

C13_Witness ==
    /\ lastOp[1] = "init"
    /\ lastOp[2] = 2
    /\ bound[1]
    /\ bound[2]
    /\ store = MaxVal
    /\ disp = <<MaxVal, MaxVal>>
    /\ subs = <<1, 2>>

\* C14: one user change, one setValue or one qconfig.set ends after at most
\* MaxCalls nested calls of a card's setValue, although the slot of
\* valueChanged calls qconfig.set on the same item again.
C14_CascadeTerminates ==
    /\ ~overflow
    /\ Cardinality(Entries({"set"})) <= MaxCalls

C14_Witness ==
    /\ ncards = 2
    /\ bound[1]
    /\ bound[2]
    /\ lastOp[1] = "user"
    /\ \E i, j \in 1..Len(log) :
          /\ i < j
          /\ log[i][1] = "notify"
          /\ log[j][1] = "set"
          /\ log[j][2] = log[i][2]
    /\ \E i \in 1..Len(log) : log[i][1] = "notify" /\ log[i][2] = 2

\* C15: between operations, every bound card whose widget accepts every
\* value shows the item's value.
C15_StoreAndCardsAgree ==
    \A c \in 1..ncards :
        (bound[c] /\ wrange[c] = <<0, MaxVal>>) => disp[c] = store

\* C16: setValue(v) on a bound card that shows v while the item holds v
\* changes neither the item nor any widget, notifies no subscriber and emits
\* no outward signal.
C16_SetSameIsNoOp ==
    [][(/\ lastOp'[1] = "setValue"
        /\ bound[lastOp'[2]]
        /\ lastOp'[2] \in 1..ncards
        /\ disp[lastOp'[2]] = lastOp'[3]
        /\ store = lastOp'[3])
       => /\ store' = store
          /\ disp' = disp
          /\ \A i \in 1..Len(log') : log'[i][1] \notin {"commit", "notify", "emit"}]_vars

C16_Witness ==
    /\ lastOp[1] = "setValue"
    /\ bound[lastOp[2]]
    /\ kind = "spin"
    /\ store = lastOp[3]
    /\ store = MaxVal
    /\ disp[lastOp[2]] = store
    /\ log = <<<<"set", lastOp[2], store>>>>

====
